---- MODULE Spec2Model ----
(***************************************************************************)
(* Model of the webhook deployment handler: src/main.py (the FastAPI       *)
(* application with its WebhookProcessor) and src/core/services.py (the    *)
(* second WebhookProcessor).                                               *)
(*                                                                         *)
(* Python strings are sequences of one-character strings, so that          *)
(* `in`, str.replace and str.startswith are computed, not assumed.         *)
(* Python/JSON values are tagged records: [t |-> "str", s |-> chars],      *)
(* [t |-> "num", n |-> 5], [t |-> "list", l |-> <<..>>],                    *)
(* [t |-> "dict", d |-> record], [t |-> "none"]; a key that a dict does    *)
(* not have is [t |-> "absent"].                                           *)
(***************************************************************************)
EXTENDS Integers, Sequences, FiniteSets, TLC

VARIABLES hook_secret, allow_events, allow_branches, is_deploying,
          reqs, last, f_in, f_out, status, execs

vars == <<hook_secret, allow_events, allow_branches, is_deploying,
          reqs, last, f_in, f_out, status, execs>>

(* ------------------------------ bounds --------------------------------- *)
\* number of HTTP requests one behaviour handles
MaxRequests == 2
\* number of execute_script calls one behaviour makes
MaxExecs == 2

(* --------------------------- Python values ----------------------------- *)
PyNone == [t |-> "none"]
Absent == [t |-> "absent"]
PyStr(chars) == [t |-> "str", s |-> chars]
PyNum(k) == [t |-> "num", n |-> k]
PyList(elems) == [t |-> "list", l |-> elems]
PyDict(fields) == [t |-> "dict", d |-> fields]

\* Python truth value of a value (used by `not payload.get("commits")`)
Truthy(v) ==
    CASE v.t = "str"  -> v.s # <<>>
      [] v.t = "num"  -> v.n # 0
      [] v.t = "list" -> v.l # <<>>
      [] v.t = "dict" -> TRUE
      [] OTHER        -> FALSE

\* dict.get(key, default) on a payload dict whose fields are a record
DictGet(fields, key, default) ==
    IF fields[key].t = "absent" THEN default ELSE fields[key]

(* ------------------------------ strings -------------------------------- *)
s_push == <<"p","u","s","h">>
s_release == <<"r","e","l","e","a","s","e">>
s_ping == <<"p","i","n","g">>
s_pu == <<"p","u">>
s_main == <<"m","a","i","n">>
s_master == <<"m","a","s","t","e","r">>
s_dev == <<"d","e","v">>
s_ma == <<"m","a">>
s_published == <<"p","u","b","l","i","s","h","e","d">>
s_created == <<"c","r","e","a","t","e","d">>
s_refs_heads == <<"r","e","f","s","/","h","e","a","d","s","/">>
s_comma == <<",">>

\* `sub in s` for two Python strings: substring test
StrContains(s, sub) ==
    \E i \in 0..(Len(s) - Len(sub)) : SubSeq(s, i + 1, i + Len(sub)) = sub

\* s.replace(old, "") : every non-overlapping occurrence, left to right
RECURSIVE StrRemoveAll(_, _)
StrRemoveAll(s, old) ==
    IF Len(s) < Len(old) THEN s
    ELSE IF SubSeq(s, 1, Len(old)) = old
         THEN StrRemoveAll(SubSeq(s, Len(old) + 1, Len(s)), old)
         ELSE <<Head(s)>> \o StrRemoveAll(Tail(s), old)

(* ------------------------- results of a call --------------------------- *)
NoArg == PyStr(<<>>)
Return(ok, fmt, arg, spawned) ==
    [kind |-> "return", ok |-> ok, fmt |-> fmt, arg |-> arg,
     exc |-> "", spawned |-> spawned]
Raise(exc, spawned) ==
    [kind |-> "raise", ok |-> FALSE, fmt |-> "", arg |-> NoArg,
     exc |-> exc, spawned |-> spawned]

(* ------------------- configuration read at import ---------------------- *)
\* os.getenv gives None for an unset variable, else the string
env_events_csv == PyStr(s_push \o s_comma \o s_release)
env_events_push == PyStr(s_push)
env_branches_csv == PyStr(s_main \o s_comma \o s_master)
the_secret == PyStr(<<"k">>)

(* ---------------- main.py: WebhookProcessor.should_deploy -------------- *)
\* lines 58-67, the push branch
should_deploy_push(payload) ==
    IF payload.t # "dict" THEN Raise("AttributeError", FALSE)
    ELSE LET ref == DictGet(payload.d, "ref", PyStr(<<>>)) IN
      IF ref.t # "str" THEN Raise("AttributeError", FALSE)
      ELSE LET branch == StrRemoveAll(ref.s, s_refs_heads) IN
        IF allow_branches.t # "str" THEN Raise("TypeError", FALSE)
        ELSE IF ~StrContains(allow_branches.s, branch)
          THEN Return(FALSE, "Branch '{}' not in allowed branches",
                      PyStr(branch), FALSE)
        ELSE IF ~Truthy(DictGet(payload.d, "commits", PyNone))
          THEN Return(FALSE, "No commits in push event", NoArg, FALSE)
        ELSE Return(TRUE, "Deployment conditions met", NoArg, FALSE)

\* variant: a missing action counts as published
should_deploy_release_default_published(payload) ==
    IF payload.t # "dict" THEN Raise("AttributeError", FALSE)
    ELSE LET action == DictGet(payload.d, "action", PyStr(s_published)) IN
      IF action # PyStr(s_published)
      THEN Return(FALSE, "Release action '{}' does not trigger deployment",
                  action, FALSE)
      ELSE Return(TRUE, "Deployment conditions met", NoArg, FALSE)

\* lines 69-73, the release branch
should_deploy_release(payload) ==
    IF payload.t # "dict" THEN Raise("AttributeError", FALSE)
    ELSE LET action == DictGet(payload.d, "action", PyStr(<<>>)) IN
      IF action # PyStr(s_published)
      THEN Return(FALSE, "Release action '{}' does not trigger deployment",
                  action, FALSE)
      ELSE Return(TRUE, "Deployment conditions met", NoArg, FALSE)

\* lines 53-75
should_deploy(event_type, payload) ==
    IF allow_events.t # "str" THEN Raise("TypeError", FALSE)
    ELSE IF ~StrContains(allow_events.s, event_type)
      THEN Return(FALSE, "Event type '{}' not in allowed events",
                  PyStr(event_type), FALSE)
    ELSE IF event_type = s_push THEN should_deploy_push(payload)
    ELSE IF event_type = s_release THEN should_deploy_release(payload)
    ELSE Return(TRUE, "Deployment conditions met", NoArg, FALSE)

(* ----------- core/services.py: WebhookProcessor.should_deploy ---------- *)
\* What the call finds around it: whether the names the module reads but
\* never binds (allow_events, allow_branches, deploy_path, subprocess,
\* datetime) are bound by whoever loads it, whether deploy_path exists,
\* and how subprocess.run(["sh", deploy_path], check=True) ends.
SvcEnvs == [bound : BOOLEAN, script_exists : BOOLEAN,
            run : {"exit0", "nonzero", "spawn_error"}]
NoEnv == [bound |-> TRUE, script_exists |-> TRUE, run |-> "exit0"]

\* lines 48-68: build the child environment and run the script
svc_run_in_filter(payload, env) ==
    LET repo == DictGet(payload.d, "repository", PyNone) IN
    IF repo.t # "dict" THEN Raise("AttributeError", FALSE)
    ELSE IF ~env.script_exists
      THEN Return(FALSE, "Deploy script not found at {}", NoArg, FALSE)
    ELSE IF \E k \in {"name", "git_url", "full_name"} : repo.d[k].t # "str"
      THEN Raise("TypeError", FALSE)
    ELSE IF env.run = "spawn_error" THEN Raise("OSError", FALSE)
    ELSE IF env.run = "nonzero" THEN Raise("CalledProcessError", TRUE)
    ELSE Return(TRUE, "Deployment conditions met", NoArg, TRUE)

\* lines 37-68, the push branch
svc_should_deploy_push(payload, env) ==
    IF payload.t # "dict" THEN Raise("AttributeError", FALSE)
    ELSE LET ref == DictGet(payload.d, "ref", PyStr(<<>>)) IN
      IF ref.t # "str" THEN Raise("AttributeError", FALSE)
      ELSE LET branch == StrRemoveAll(ref.s, s_refs_heads) IN
        IF allow_branches.t # "str" THEN Raise("TypeError", FALSE)
        ELSE IF ~StrContains(allow_branches.s, branch)
          THEN Return(FALSE, "Branch '{}' not in allowed branches",
                      PyStr(branch), FALSE)
        ELSE IF ~Truthy(DictGet(payload.d, "commits", PyNone))
          THEN Return(FALSE, "No commits in push event", NoArg, FALSE)
        ELSE svc_run_in_filter(payload, env)

\* lines 70-74, the release branch
svc_should_deploy_release(payload) ==
    IF payload.t # "dict" THEN Raise("AttributeError", FALSE)
    ELSE LET action == DictGet(payload.d, "action", PyStr(<<>>)) IN
      IF action # PyStr(s_published)
      THEN Return(FALSE, "Release action '{}' does not trigger deployment",
                  action, FALSE)
      ELSE Return(TRUE, "Deployment conditions met", NoArg, FALSE)

\* lines 32-76
svc_should_deploy(event_type, payload, env) ==
    IF ~env.bound THEN Raise("NameError", FALSE)
    ELSE IF allow_events.t # "str" THEN Raise("TypeError", FALSE)
    ELSE IF ~StrContains(allow_events.s, event_type)
      THEN Return(FALSE, "Event type '{}' not in allowed events",
                  PyStr(event_type), FALSE)
    ELSE IF event_type = s_push THEN svc_should_deploy_push(payload, env)
    ELSE IF event_type = s_release THEN svc_should_deploy_release(payload)
    ELSE Return(TRUE, "Deployment conditions met", NoArg, FALSE)

(* ------------------- request bodies and signatures --------------------- *)
\* A request body is the bytes received: `utf8` says whether they decode
\* as UTF-8, `json` whether the decoded text is JSON, `value` what
\* json.loads returns for it.
PayloadFields(ref, commits, action, repository, after, release) ==
    PyDict([ref |-> ref, commits |-> commits, action |-> action,
            repository |-> repository, after |-> after, release |-> release])
Body(id, utf8, json, value) ==
    [id |-> id, utf8 |-> utf8, json |-> json, value |-> value]

ref_main == PyStr(s_refs_heads \o s_main)
one_commit == PyList(<<PyNum(1)>>)
repo_full == PyDict([name |-> PyStr(<<"a">>), git_url |-> PyStr(<<"g">>),
                     full_name |-> PyStr(<<"o","/","a">>)])
repo_partial == PyDict([name |-> PyStr(<<"a">>), git_url |-> PyNone,
                        full_name |-> PyNone])

b_bad_utf8 == Body("bad_utf8", FALSE, FALSE, Absent)
b_not_json == Body("not_json", TRUE, FALSE, Absent)
b_push == Body("push", TRUE, TRUE,
    PayloadFields(ref_main, one_commit, Absent, repo_full,
                  PyStr(<<"c","0","f","f","e","e">>), Absent))
b_push_after_num == Body("push_after_num", TRUE, TRUE,
    PayloadFields(ref_main, one_commit, Absent, repo_full, PyNum(7), Absent))
b_push_no_commits == Body("push_no_commits", TRUE, TRUE,
    PayloadFields(ref_main, PyList(<<>>), Absent, repo_full, Absent, Absent))
b_release == Body("release", TRUE, TRUE,
    PayloadFields(Absent, Absent, PyStr(s_published), Absent, Absent,
                  PyDict([tag_name |-> PyStr(<<"v","1">>)])))
b_release_str == Body("release_str", TRUE, TRUE,
    PayloadFields(Absent, Absent, PyStr(s_published), Absent, Absent,
                  PyStr(<<"v","1">>)))
Bodies == {b_bad_utf8, b_not_json, b_push, b_push_after_num,
           b_push_no_commits, b_release, b_release_str}

\* manual_deploy's fake payload, main.py line 233
fake_payload ==
    PayloadFields(ref_main, PyList(<<PyDict([id |-> PyStr(<<"m">>)])>>),
                  Absent, Absent, Absent, Absent)

s_sha256_eq == <<"s","h","a","2","5","6","=">>
s_sha1_eq == <<"s","h","a","1","=">>
\* the one non-ASCII character of the model (a header is decoded as latin-1)
NonAscii == "e-acute"

\* hmac.new(key, body, sha256).hexdigest(): the 64 hex characters are
\* abstracted to two, one determined by the key and one by the body,
\* distinct for distinct keys and bodies of the model.
KeyHex(key) == IF key = <<>> THEN "0" ELSE Head(key)
HmacHex(key, body) == <<KeyHex(key), body.id>>

Signatures(body) ==
    { s_sha256_eq \o HmacHex(<<"k">>, body),
      s_sha256_eq \o HmacHex(<<"x">>, body),
      s_sha1_eq \o HmacHex(<<"k">>, body),
      s_sha256_eq \o <<NonAscii>>,
      <<>> }

\* X-GitHub-Event values of the requests; <<>> is the missing header
EventTypes == {s_push, s_release, <<>>}

(* --------------- main.py: WebhookProcessor.verify_signature ------------ *)
\* lines 41-51; "true"/"false" for the returned bool, "raise" when
\* hook_secret is None (.encode) or compare_digest gets a non-ASCII str
verify_signature(payload, signature) ==
    IF ~(Len(signature) >= 7 /\ SubSeq(signature, 1, 7) = s_sha256_eq)
    THEN "false"
    ELSE IF hook_secret.t # "str" THEN "raise"
    ELSE LET expected_signature == HmacHex(hook_secret.s, payload)
             provided_signature == SubSeq(signature, 8, Len(signature))
         IN IF \E i \in 1..Len(provided_signature) :
                   provided_signature[i] = NonAscii
            THEN "raise"
            ELSE IF expected_signature = provided_signature
                 THEN "true" ELSE "false"

(* --------------------- main.py: the HTTP handlers ---------------------- *)
\* what a handler does: the response, and the task it hands to
\* background_tasks.add_task (schedule), with the task's arguments
Response(verified, code, message, reason, schedule, event_type, payload) ==
    [verified |-> verified, status |-> code, message |-> message,
     reason |-> reason, schedule |-> schedule,
     event_type |-> event_type, payload |-> payload]
NoReason == Return(TRUE, "", NoArg, FALSE)

\* variant: the busy test comes before the eligibility decision
github_webhook_verified_busy_first(body, event_type, deploying) ==
    IF ~body.utf8
    THEN Response("true", 500, "Internal server error", NoReason,
                  FALSE, <<>>, Absent)
    ELSE IF ~body.json
    THEN Response("true", 400, "Invalid JSON payload", NoReason,
                  FALSE, <<>>, Absent)
    ELSE IF deploying
    THEN Response("true", 202, "Deployment already in progress", NoReason,
                  FALSE, <<>>, Absent)
    ELSE LET payload == body.value
             decision == should_deploy(event_type, payload) IN
      IF decision.kind = "raise"
      THEN Response("true", 500, "Internal server error", NoReason,
                    FALSE, <<>>, Absent)
      ELSE IF ~decision.ok
      THEN Response("true", 200, "Webhook received but deployment skipped",
                    decision, FALSE, <<>>, Absent)
      ELSE Response("true", 202, "Deployment triggered successfully",
                    NoReason, TRUE, event_type, payload)

\* lines 183-215: after the signature check
github_webhook_verified(body, event_type, deploying) ==
    IF ~body.utf8
    THEN Response("true", 500, "Internal server error", NoReason,
                  FALSE, <<>>, Absent)
    ELSE IF ~body.json
    THEN Response("true", 400, "Invalid JSON payload", NoReason,
                  FALSE, <<>>, Absent)
    ELSE LET payload == body.value
             decision == should_deploy(event_type, payload) IN
      IF decision.kind = "raise"
      THEN Response("true", 500, "Internal server error", NoReason,
                    FALSE, <<>>, Absent)
      ELSE IF ~decision.ok
      THEN Response("true", 200, "Webhook received but deployment skipped",
                    decision, FALSE, <<>>, Absent)
      ELSE IF deploying
      THEN Response("true", 202, "Deployment already in progress", NoReason,
                    FALSE, <<>>, Absent)
      ELSE Response("true", 202, "Deployment triggered successfully",
                    NoReason, TRUE, event_type, payload)

\* variant: the body is parsed before the signature is looked at
github_webhook_parse_first(body, signature, event_type, deploying) ==
    IF ~body.utf8
    THEN Response("none", 500, "Internal server error", NoReason,
                  FALSE, <<>>, Absent)
    ELSE IF ~body.json
    THEN Response("none", 400, "Invalid JSON payload", NoReason,
                  FALSE, <<>>, Absent)
    ELSE LET v == verify_signature(body, signature) IN
      IF v = "raise"
      THEN Response("raise", 500, "Internal server error", NoReason,
                    FALSE, <<>>, Absent)
      ELSE IF v = "false"
      THEN Response("false", 403, "Invalid signature", NoReason,
                    FALSE, <<>>, Absent)
      ELSE github_webhook_verified(body, event_type, deploying)

\* lines 166-221
github_webhook(body, signature, event_type, deploying) ==
    LET v == verify_signature(body, signature) IN
    IF v = "raise"
    THEN Response("raise", 500, "Internal server error", NoReason,
                  FALSE, <<>>, Absent)
    ELSE IF v = "false"
    THEN Response("false", 403, "Invalid signature", NoReason,
                  FALSE, <<>>, Absent)
    ELSE github_webhook_verified(body, event_type, deploying)

\* lines 224-239
manual_deploy(deploying) ==
    IF deploying
    THEN Response("none", 202, "Deployment already in progress", NoReason,
                  FALSE, <<>>, Absent)
    ELSE Response("none", 202, "Manual deployment triggered", NoReason,
                  TRUE, s_push, fake_payload)

(* ---------------------- main.py: run_deployment ------------------------ *)
\* lines 128-132: the guard; the test and the assignment run without an
\* await between them
AdmittedAlways(deploying) == TRUE
Admitted(deploying) == ~deploying

\* line 163: the value the finally block leaves in is_deploying
\* lines 128-130: the early return is outside the try block, so the
\* finally block does not run and the flag keeps its value
FlagAfterSkipCleared(deploying) == FALSE
FlagAfterSkip(deploying) == deploying

\* line 132: the flag once the task is admitted
FlagWhenAdmittedLate(deploying) == deploying
FlagWhenAdmitted(deploying) == TRUE

FlagAfterSuccessOnly(outcome) == outcome # "success"
FlagAfter(outcome) == FALSE

\* lines 138-144: does logging the deployment context raise?
LogContextRaises(event_type, payload) ==
    IF event_type = s_push
    THEN \/ payload.t # "dict"
         \/ DictGet(payload.d, "ref", PyStr(<<>>)).t # "str"
         \/ DictGet(payload.d, "after", PyStr(<<>>)).t \notin {"str", "list"}
    ELSE IF event_type = s_release
    THEN \/ payload.t # "dict"
         \/ DictGet(payload.d, "release", PyDict(<<>>)).t # "dict"
    ELSE FALSE

\* lines 79-95 of execute_deploy_script, up to its first await: what the
\* script path is found to be decides how far the call gets
FsStates == {"missing", "not_file", "chmod_fails", "file"}
OutcomeBeforeSpawn(fs) ==
    CASE fs = "missing"     -> "script_not_found"
      [] fs = "not_file"    -> "script_not_a_file"
      [] fs = "chmod_fails" -> "failed_to_execute"
      [] OTHER              -> "spawning"

(* ------------- core/services.py: the status store (self.status) ------- *)
\* self.status is one dict: execute_script keeps the record of an app
\* under the app's name (line 108) and error() keeps the last error
\* under the key 'error' (line 15). A record is a dict of the fields
\* below; a field that was written holds its value and, for reading the
\* claims, the call that wrote it.
AppNames == {"a", "b", "error"}
StatusKeys == AppNames \cup {"error"}
RecordFields == {"cmd", "path", "stdout", "stderr", "returncode", "error"}
EmptyRecord == PyDict([f \in RecordFields |-> Absent])
EmptyStatus == [k \in StatusKeys |-> Absent]
Written(by, v) == [t |-> "set", by |-> by, v |-> v]

\* status[app][field] = v; a TypeError when status[app] is not a dict
CanSetField(st, app) == st[app].t = "dict"
SetField(st, app, field, by, v) ==
    [st EXCEPT ![app] = PyDict([st[app].d EXCEPT ![field] = Written(by, v)])]

(* ------------------------------ state ---------------------------------- *)
\* reqs[i]: the i-th handled request: its response and its background
\* task. pc: "none" (no task), "queued", "spawning" (awaiting
\* create_subprocess_exec), "running" (awaiting communicate), "done".
Idle == [impl |-> "none"]
NoLast == [endpoint |-> "none"]

TaskIds == 1..MaxRequests
\* lines 116-123: what GET /status reports (the flag as it is)
deployment_status == [is_deploying |-> is_deploying]
InFlight == {i \in 1..Len(reqs) : reqs[i].pc \in {"spawning", "running"}}

NewRequest(endpoint, r) ==
    [endpoint |-> endpoint, verified |-> r.verified, status |-> r.status,
     message |-> r.message, reason |-> r.reason,
     pc |-> IF r.schedule THEN "queued" ELSE "none",
     event_type |-> r.event_type, payload |-> r.payload,
     outcome |-> "none"]

Init ==
    /\ hook_secret \in {PyNone, the_secret}
    /\ allow_events = env_events_csv
    /\ allow_branches = env_branches_csv
    /\ is_deploying = FALSE
    /\ reqs = <<>>
    /\ last = NoLast
    /\ f_in = Idle
    /\ f_out = Idle
    /\ status = EmptyStatus
    /\ execs = <<>>

\* POST /webhook, from the resumption of `await request.body()` to the
\* return of the response: no await in between
PostWebhook ==
    /\ Len(reqs) < MaxRequests
    /\ \E body \in Bodies, event_type \in EventTypes :
       \E signature \in Signatures(body) :
          /\ reqs' = Append(reqs, NewRequest("webhook",
                 github_webhook(body, signature, event_type, is_deploying)))
          /\ last' = [endpoint |-> "webhook", body |-> body,
                      signature |-> signature, event_type |-> event_type]
    /\ UNCHANGED <<hook_secret, allow_events, allow_branches, is_deploying,
                   f_in, f_out, status, execs>>

\* POST /deploy
PostDeploy ==
    /\ Len(reqs) < MaxRequests
    /\ reqs' = Append(reqs, NewRequest("deploy", manual_deploy(is_deploying)))
    /\ last' = [endpoint |-> "deploy"]
    /\ UNCHANGED <<hook_secret, allow_events, allow_branches, is_deploying,
                   f_in, f_out, status, execs>>

\* The background task of request i starts, after the response was sent
\* (other requests may have been handled in between), and runs to its
\* first await or to its end.
TaskStart(i) ==
    /\ i <= Len(reqs)
    /\ reqs[i].pc = "queued"
    /\ IF ~Admitted(is_deploying)
       THEN /\ reqs' = [reqs EXCEPT ![i].pc = "done",
                                    ![i].outcome = "skipped"]
            /\ is_deploying' = FlagAfterSkip(is_deploying)
       ELSE IF LogContextRaises(reqs[i].event_type, reqs[i].payload)
       THEN /\ reqs' = [reqs EXCEPT ![i].pc = "done",
                                    ![i].outcome = "raised"]
            /\ is_deploying' = FlagAfter("raised")
       ELSE \E fs \in FsStates :
            LET o == OutcomeBeforeSpawn(fs) IN
            IF o = "spawning"
            THEN /\ reqs' = [reqs EXCEPT ![i].pc = "spawning"]
                 /\ is_deploying' = FlagWhenAdmitted(is_deploying)
            ELSE /\ reqs' = [reqs EXCEPT ![i].pc = "done", ![i].outcome = o]
                 /\ is_deploying' = FlagAfter(o)
    /\ UNCHANGED <<hook_secret, allow_events, allow_branches, last,
                   f_in, f_out, status, execs>>

\* create_subprocess_exec returns the process, or raises (lines 90-103)
TaskSpawned(i) ==
    /\ i <= Len(reqs)
    /\ reqs[i].pc = "spawning"
    /\ \/ /\ reqs' = [reqs EXCEPT ![i].pc = "running"]
          /\ UNCHANGED is_deploying
       \/ /\ reqs' = [reqs EXCEPT ![i].pc = "done",
                                  ![i].outcome = "failed_to_execute"]
          /\ is_deploying' = FlagAfter("failed_to_execute")
    /\ UNCHANGED <<hook_secret, allow_events, allow_branches, last,
                   f_in, f_out, status, execs>>

\* the script ends: communicate returns, the output is decoded, the
\* outcome is logged and the finally block runs (lines 97-163)
TaskExit(i) ==
    /\ i <= Len(reqs)
    /\ reqs[i].pc = "running"
    /\ \E o \in {"success", "nonzero_exit", "failed_to_execute"} :
          /\ reqs' = [reqs EXCEPT ![i].pc = "done", ![i].outcome = o]
          /\ is_deploying' = FlagAfter(o)
    /\ UNCHANGED <<hook_secret, allow_events, allow_branches, last,
                   f_in, f_out, status, execs>>

Next ==
    \/ PostWebhook
    \/ PostDeploy
    \/ \E i \in TaskIds : TaskStart(i)
    \/ \E i \in TaskIds : TaskSpawned(i)
    \/ \E i \in TaskIds : TaskExit(i)

Spec == Init /\ [][Next]_vars

\* the event loop resumes every task that can run, and the deploy
\* script terminates
FairSpec ==
    /\ Spec
    /\ \A i \in TaskIds : WF_vars(TaskStart(i))
    /\ \A i \in TaskIds : WF_vars(TaskSpawned(i))
    /\ \A i \in TaskIds : WF_vars(TaskExit(i))

(* ------------- should_deploy called on its own (both classes) ---------- *)
FilterEventTypes == {s_push, s_release, s_ping, s_pu, <<>>}
FilterRefs ==
    {Absent, PyStr(<<>>), ref_main, PyStr(s_main),
     PyStr(s_refs_heads \o s_dev), PyStr(s_refs_heads \o s_ma),
     PyStr(<<"m">> \o s_refs_heads \o <<"a","i","n">>), PyNum(1)}
FilterCommits == {Absent, PyList(<<>>), one_commit}
FilterRepos == {Absent, repo_full, repo_partial}
FilterActions == {Absent, PyStr(s_published), PyStr(s_created), PyNum(1)}
FilterPayloads ==
    {PayloadFields(r, c, Absent, p, Absent, Absent) :
        r \in FilterRefs, c \in FilterCommits, p \in FilterRepos}
    \cup {PayloadFields(Absent, Absent, a, Absent, Absent, Absent) :
        a \in FilterActions}
    \cup {PyList(<<>>), PyNone}

FilterInit ==
    /\ hook_secret = the_secret
    /\ allow_events \in {env_events_csv, env_events_push, PyNone}
    /\ allow_branches \in {env_branches_csv, PyNone}
    /\ is_deploying \in BOOLEAN
    /\ reqs = <<>>
    /\ last = NoLast
    /\ status = EmptyStatus
    /\ execs = <<>>
    /\ \E impl \in {"main", "services"}, e \in FilterEventTypes,
          p \in FilterPayloads, env \in SvcEnvs :
          /\ impl = "main" => env = NoEnv
          /\ f_in = [impl |-> impl, event_type |-> e, payload |-> p,
                     env |-> env]
    /\ f_out = Idle

\* one call of should_deploy, with what it leaves behind
FilterCall ==
    /\ f_out = Idle
    /\ f_out' = IF f_in.impl = "main"
                THEN should_deploy(f_in.event_type, f_in.payload)
                ELSE svc_should_deploy(f_in.event_type, f_in.payload,
                                       f_in.env)
    /\ UNCHANGED <<hook_secret, allow_events, allow_branches, is_deploying,
                   reqs, last, f_in, status, execs>>

FilterSpec == FilterInit /\ [][FilterCall]_vars

(* ------------------ verify_signature called on its own ----------------- *)
\* the empty request body
b_empty == Body("empty", TRUE, FALSE, Absent)
VerifyBodies == Bodies \cup {b_empty}
VerifyKeys == {<<"k">>, <<"x">>, <<>>}
VerifyDigests ==
    {HmacHex(k, b) : k \in VerifyKeys, b \in VerifyBodies}
    \cup {<<NonAscii>>, <<"k">>, <<>>}
VerifySignatures ==
    {p \o d : p \in {s_sha256_eq, s_sha1_eq, <<>>}, d \in VerifyDigests}

VerifyInit ==
    /\ hook_secret \in {PyNone, PyStr(<<>>), the_secret}
    /\ allow_events = env_events_csv
    /\ allow_branches = env_branches_csv
    /\ is_deploying = FALSE
    /\ reqs = <<>>
    /\ last = NoLast
    /\ status = EmptyStatus
    /\ execs = <<>>
    /\ \E b \in VerifyBodies, sig \in VerifySignatures :
          f_in = [impl |-> "verify", body |-> b, signature |-> sig]
    /\ f_out = Idle

\* one call of verify_signature
VerifyCall ==
    /\ f_out = Idle
    /\ f_out' = [result |-> verify_signature(f_in.body, f_in.signature)]
    /\ UNCHANGED <<hook_secret, allow_events, allow_branches, is_deploying,
                   reqs, last, f_in, status, execs>>

VerifySpec == VerifyInit /\ [][VerifyCall]_vars

(* ---------- core/services.py: WebhookProcessor.execute_script ---------- *)
\* the command lists of the configured apps
CommandLists == {<<"exit 0">>, <<"make", "exit 1">>}
\* ' && '.join(commands), line 110
RECURSIVE JoinAnd(_)
JoinAnd(commands) ==
    IF commands = <<>> THEN <<>>
    ELSE IF Len(commands) = 1 THEN commands
    ELSE <<Head(commands), " && ">> \o JoinAnd(Tail(commands))

\* what a process writes: bytes, one of them not valid UTF-8
BadByte == "0xff"
OutChoices == {<<>>, <<"o", "\n", "k", "\n">>, <<BadByte>>}
ErrChoices == {<<>>, <<"w", "\n">>}
ExitCodes == {0, 1}
\* bytes.decode() succeeds
Decodes(bytes) == \A k \in 1..Len(bytes) : bytes[k] # BadByte
\* str.strip()
IsSpace(c) == c \in {" ", "\n"}
RECURSIVE LStrip(_)
LStrip(s) == IF s # <<>> /\ IsSpace(Head(s)) THEN LStrip(Tail(s)) ELSE s
RECURSIVE RStrip(_)
RStrip(s) ==
    IF s # <<>> /\ IsSpace(s[Len(s)])
    THEN RStrip(SubSeq(s, 1, Len(s) - 1)) ELSE s
Strip(s) == RStrip(LStrip(s))
\* str.splitlines()
RECURSIVE SplitLinesFrom(_, _)
SplitLinesFrom(s, cur) ==
    IF s = <<>> THEN (IF cur = <<>> THEN <<>> ELSE <<cur>>)
    ELSE IF Head(s) = "\n" THEN <<cur>> \o SplitLinesFrom(Tail(s), <<>>)
    ELSE SplitLinesFrom(Tail(s), Append(cur, Head(s)))
SplitLines(s) == SplitLinesFrom(s, <<>>)

\* execs[i]: the i-th call of execute_script: its arguments, where it is
\* ("spawning": awaiting create_subprocess_shell, "running": awaiting
\* communicate, "done"), how it ended ("true"/"false": the returned
\* success, "raise": an exception left the call) and what its process did
NoProc == [rc |-> -1, out |-> <<>>, err |-> <<>>]
ExecIds == 1..MaxExecs
NewExec(app, commands, path_exists, pc, ret) ==
    [app |-> app, commands |-> commands, path_exists |-> path_exists,
     pc |-> pc, ret |-> ret, proc |-> NoProc]

\* lines 107-119: from the call to its first await
ExecStart ==
    /\ Len(execs) < MaxExecs
    /\ \E app \in AppNames, commands \in CommandLists,
          path_exists \in BOOLEAN :
       LET i == Len(execs) + 1
           cmd == JoinAnd(commands)
           st1 == [status EXCEPT ![app] = EmptyRecord]
           st2 == [st1 EXCEPT !["error"] = PyStr(<<>>)]
       IN IF ~CanSetField(st2, app)
          THEN /\ status' = st2
               /\ execs' = Append(execs,
                     NewExec(app, commands, path_exists, "done", "raise"))
          ELSE IF ~path_exists
          THEN /\ status' = SetField(SetField(st2, app, "cmd", i, cmd),
                                     app, "path", i, "Deploy [{}] not found")
               /\ execs' = Append(execs,
                     NewExec(app, commands, path_exists, "done", "false"))
          ELSE /\ status' = SetField(st2, app, "cmd", i, cmd)
               /\ execs' = Append(execs,
                     NewExec(app, commands, path_exists, "spawning", "none"))
    /\ UNCHANGED <<hook_secret, allow_events, allow_branches, is_deploying,
                   reqs, last, f_in, f_out>>

\* lines 139-141: the except clause
ExecFailed(i) ==
    IF CanSetField(status, execs[i].app)
    THEN /\ status' = SetField(status, execs[i].app, "error", i,
                               "Failed to execute deploy script")
         /\ execs' = [execs EXCEPT ![i].pc = "done", ![i].ret = "false"]
    ELSE /\ UNCHANGED status
         /\ execs' = [execs EXCEPT ![i].pc = "done", ![i].ret = "raise"]

\* lines 119-124: create_subprocess_shell returns the process, or raises
ExecSpawned(i) ==
    /\ i <= Len(execs)
    /\ execs[i].pc = "spawning"
    /\ \/ /\ execs' = [execs EXCEPT ![i].pc = "running"]
          /\ UNCHANGED status
       \/ ExecFailed(i)
    /\ UNCHANGED <<hook_secret, allow_events, allow_branches, is_deploying,
                   reqs, last, f_in, f_out>>

\* lines 126-137: the process ends and its outcome is recorded
ExecRecorded(i, rc, out, err) ==
    LET app == execs[i].app
        stdout == Strip(out)
        stderr == Strip(err)
    IN /\ status' = SetField(SetField(SetField(status,
                        app, "stdout", i, SplitLines(stdout)),
                        app, "stderr", i, SplitLines(stderr)),
                        app, "returncode", i, rc)
       /\ execs' = [execs EXCEPT ![i].pc = "done",
                       ![i].ret = IF rc = 0 THEN "true" ELSE "false",
                       ![i].proc = [rc |-> rc, out |-> out, err |-> err]]

ExecExit(i) ==
    /\ i <= Len(execs)
    /\ execs[i].pc = "running"
    /\ \E rc \in ExitCodes, out \in OutChoices, err \in ErrChoices :
          IF Decodes(out) /\ Decodes(err) /\ CanSetField(status, execs[i].app)
          THEN ExecRecorded(i, rc, out, err)
          ELSE /\ IF CanSetField(status, execs[i].app)
                  THEN status' = SetField(status, execs[i].app, "error", i,
                                          "Failed to execute deploy script")
                  ELSE UNCHANGED status
               /\ execs' = [execs EXCEPT ![i].pc = "done",
                     ![i].ret = IF CanSetField(status, execs[i].app)
                                THEN "false" ELSE "raise",
                     ![i].proc = [rc |-> rc, out |-> out, err |-> err]]
    /\ UNCHANGED <<hook_secret, allow_events, allow_branches, is_deploying,
                   reqs, last, f_in, f_out>>

ScriptInit ==
    /\ hook_secret = the_secret
    /\ allow_events = env_events_csv
    /\ allow_branches = env_branches_csv
    /\ is_deploying = FALSE
    /\ reqs = <<>>
    /\ last = NoLast
    /\ f_in = Idle
    /\ f_out = Idle
    /\ status = EmptyStatus
    /\ execs = <<>>

ScriptNext ==
    \/ ExecStart
    \/ \E i \in ExecIds : ExecSpawned(i)
    \/ \E i \in ExecIds : ExecExit(i)

ScriptSpec == ScriptInit /\ [][ScriptNext]_vars

(* ============================== claims ================================= *)
N == Len(reqs)
\* the task of request i has called execute_deploy_script
Executed(i) ==
    \/ reqs[i].pc \in {"spawning", "running"}
    \/ reqs[i].pc = "done" /\ reqs[i].outcome \notin {"skipped", "raised"}
Triggered(i) ==
    reqs[i].message \in {"Deployment triggered successfully",
                         "Manual deployment triggered"}

\* C1: for every interleaving of POST /webhook requests, POST /deploy
\* requests and their run_deployment tasks, at most one execution of the
\* deploy script is in flight at any time.
C1_AtMostOneInFlight == Cardinality(InFlight) <= 1
\* the guard has acted: one task is running the script and another was
\* turned away
C1_Witness ==
    /\ Cardinality(InFlight) = 1
    /\ \E j \in 1..N : reqs[j].outcome = "skipped"

\* C2: an admitted run_deployment task clears is_deploying on every exit
\* path (success, non-zero exit, missing script, spawn error, exception in
\* the guarded block); under fairness is_deploying is eventually False
\* again, and a task that starts while it is False is admitted.
C2_GuardReleased ==
    /\ [](is_deploying => <>(~is_deploying))
    /\ [][\A i \in 1..N :
            (reqs[i].pc # "done" /\ reqs'[i].pc = "done"
                /\ reqs'[i].outcome # "skipped") => ~is_deploying']_vars
    /\ [][\A i \in 1..N :
            (reqs[i].pc = "queued" /\ reqs'[i].pc # "queued"
                /\ ~is_deploying) => reqs'[i].outcome # "skipped"]_vars
\* a deployment ended in failure, the flag is clear, and the next trigger
\* was admitted and is running the script
C2_Witness ==
    /\ N = 2
    /\ reqs[1].pc = "done"
    /\ reqs[1].outcome \in {"raised", "failed_to_execute", "nonzero_exit"}
    /\ reqs[2].pc = "running"
    /\ is_deploying

\* C3 (as claimed): every request answered 'Deployment triggered
\* successfully' or 'Manual deployment triggered' has its run_deployment
\* task execute the deploy script; no acknowledged trigger is dropped by
\* the guard.
C3_TriggeredIsExecuted ==
    \A i \in 1..N : Triggered(i) => reqs[i].outcome # "skipped"

\* C4: a POST /webhook request whose signature header verify_signature
\* rejects is answered 403 whatever its body and event type are, schedules
\* no background task and leaves is_deploying unchanged.
C4_BadSignatureIs403 ==
    [][(/\ Len(reqs') = N + 1
        /\ last'.endpoint = "webhook"
        /\ verify_signature(last'.body, last'.signature) = "false")
       => /\ reqs'[N + 1].status = 403
          /\ reqs'[N + 1].pc = "none"
          /\ SubSeq(reqs', 1, N) = reqs
          /\ is_deploying' = is_deploying]_vars
\* a request with a body that is not JSON and a digest under the wrong
\* key was answered 403 while a deployment was running
C4_Witness ==
    /\ N = 2
    /\ last.endpoint = "webhook"
    /\ last.body = b_not_json
    /\ last.signature = s_sha256_eq \o HmacHex(<<"x">>, b_not_json)
    /\ reqs[2].status = 403
    /\ reqs[2].pc = "none"
    /\ is_deploying

\* C5 (as claimed): every execution of the deploy script is caused by a
\* request that passed verify_signature.
C5_ExecutedIsVerified ==
    \A i \in 1..N : Executed(i) => reqs[i].verified = "true"

\* C10 (as claimed): a validly signed POST /webhook request whose body is
\* not valid UTF-8, or is not JSON, is answered 400 and schedules no
\* background task.
C10_MalformedIs400 ==
    (/\ N > 0
     /\ last.endpoint = "webhook"
     /\ verify_signature(last.body, last.signature) = "true"
     /\ (~last.body.utf8 \/ ~last.body.json))
    => (reqs[N].status = 400 /\ reqs[N].pc = "none")

\* C11: a validly signed, well-formed webhook event that should_deploy
\* rejects is answered 200 with the reason, schedules no run_deployment
\* task, never causes the deploy script to run and leaves is_deploying
\* unchanged.
C11_IneligibleIsSkipped ==
    /\ [][(/\ Len(reqs') = N + 1
            /\ last'.endpoint = "webhook"
            /\ verify_signature(last'.body, last'.signature) = "true"
            /\ last'.body.utf8 /\ last'.body.json
            /\ should_deploy(last'.event_type, last'.body.value).kind
                   = "return"
            /\ ~should_deploy(last'.event_type, last'.body.value).ok)
           => /\ reqs'[N + 1].status = 200
              /\ reqs'[N + 1].reason
                    = should_deploy(last'.event_type, last'.body.value)
              /\ reqs'[N + 1].pc = "none"
              /\ SubSeq(reqs', 1, N) = reqs
              /\ is_deploying' = is_deploying]_vars
    /\ [][\A i \in 1..N : reqs[i].pc = "none" => reqs'[i].pc = "none"]_vars
\* a push without commits arrived while a deployment was running and was
\* answered 200 with its reason
C11_Witness ==
    /\ N = 2
    /\ last.endpoint = "webhook"
    /\ last.body = b_push_no_commits
    /\ last.event_type = s_push
    /\ reqs[2].status = 200
    /\ reqs[2].reason.fmt = "No commits in push event"
    /\ reqs[2].pc = "none"
    /\ reqs[1].pc = "running"
    /\ is_deploying

\* C19: a run_deployment task that finds is_deploying already True returns
\* without running the deploy script and without changing is_deploying.
C19_SkipKeepsFlag ==
    [][\A i \in 1..N :
         (reqs[i].pc = "queued" /\ reqs'[i].pc # "queued" /\ is_deploying)
         => (/\ reqs'[i].pc = "done"
             /\ reqs'[i].outcome = "skipped"
             /\ is_deploying')]_vars
\* the second task was turned away while the first is still running the
\* script, and the flag is still set
C19_Witness ==
    /\ N = 2
    /\ reqs[1].pc = "running"
    /\ reqs[2].pc = "done"
    /\ reqs[2].outcome = "skipped"
    /\ is_deploying

\* C20: the is_deploying value GET /status reports is True if and only if
\* exactly one run_deployment task is between its admission and its
\* finally block: set before execute_deploy_script is called, True until
\* that call has returned or raised.
C20_StatusIsFaithful ==
    deployment_status.is_deploying <=> Cardinality(InFlight) = 1
\* a first deployment has ended and the second is running: the flag is
\* reported set, for the second one
C20_Witness ==
    /\ N = 2
    /\ reqs[1].pc = "done"
    /\ reqs[1].outcome = "success"
    /\ InFlight = {2}
    /\ deployment_status.is_deploying

(* ----------------------- claims on should_deploy ----------------------- *)
\* The vocabulary of the claims, not of the code.
\* s with a leading `prefix` removed and nothing else changed
StripPrefix(s, prefix) ==
    IF Len(s) >= Len(prefix) /\ SubSeq(s, 1, Len(prefix)) = prefix
    THEN SubSeq(s, Len(prefix) + 1, Len(s))
    ELSE s

\* the comma-separated names of an allow-list value
RECURSIVE SplitComma(_, _)
SplitComma(s, cur) ==
    IF s = <<>> THEN {cur}
    ELSE IF Head(s) = "," THEN {cur} \cup SplitComma(Tail(s), <<>>)
         ELSE SplitComma(Tail(s), Append(cur, Head(s)))

\* the names an allow-list environment value configures
AllowedNames(v) == IF v.t = "str" THEN SplitComma(v.s, <<>>) ELSE {}

Called == f_out # Idle
FilterRef == DictGet(f_in.payload.d, "ref", PyStr(<<>>))
FilterCommitsOf == DictGet(f_in.payload.d, "commits", PyNone)

\* C6 (as claimed): should_deploy of main.py returns (False, reason naming
\* the type) for every event type that is not one of the configured
\* allowed event types, the empty type and fragments of allowed types
\* included (ALLOWED_EVENTS being set).
C6_UnlistedEventRejected ==
    (/\ Called
     /\ f_in.impl = "main"
     /\ allow_events.t = "str"
     /\ f_in.event_type \notin AllowedNames(allow_events))
    => (/\ f_out.kind = "return"
        /\ ~f_out.ok
        /\ f_out.arg = PyStr(f_in.event_type))

\* C7 (as claimed): for a push event should_deploy of main.py takes the
\* branch to be the ref with a leading 'refs/heads/' removed and returns
\* (False, _) whenever that branch is not one of the configured allowed
\* branches (missing or empty ref, 'refs/heads/' elsewhere than at the
\* start included).
C7_UnlistedBranchRejected ==
    (/\ Called
     /\ f_in.impl = "main"
     /\ f_in.event_type = s_push
     /\ s_push \in AllowedNames(allow_events)
     /\ allow_branches.t = "str"
     /\ f_in.payload.t = "dict"
     /\ FilterRef.t = "str"
     /\ StripPrefix(FilterRef.s, s_refs_heads)
            \notin AllowedNames(allow_branches))
    => (f_out.kind = "return" /\ ~f_out.ok)

\* C8 (as claimed): for a push event with 'push' allow-listed, both
\* should_deploy implementations return (True, _) when the branch is
\* allow-listed and commits is non-empty, and (False, _) when commits is
\* absent or empty, whatever the branch (both allow-lists being set, and
\* the names services.py reads being bound).
C8_PushDecision ==
    (/\ Called
     /\ f_in.env.bound
     /\ f_in.event_type = s_push
     /\ s_push \in AllowedNames(allow_events)
     /\ allow_branches.t = "str"
     /\ f_in.payload.t = "dict"
     /\ FilterRef.t = "str")
    => /\ (/\ StripPrefix(FilterRef.s, s_refs_heads)
                  \in AllowedNames(allow_branches)
           /\ Truthy(FilterCommitsOf))
          => (f_out.kind = "return" /\ f_out.ok)
       /\ ~Truthy(FilterCommitsOf)
          => (f_out.kind = "return" /\ ~f_out.ok)

\* C9 (as claimed): for every event type and payload, both should_deploy
\* implementations return a (bool, reason) pair without spawning a
\* process, without touching is_deploying and without raising (both
\* allow-lists being set, and the names services.py reads being bound).
C9_FilterIsPure ==
    /\ []((Called /\ f_in.env.bound /\ allow_events.t = "str"
            /\ allow_branches.t = "str")
          => (f_out.kind = "return" /\ ~f_out.spawned))
    /\ [][is_deploying' = is_deploying]_vars

\* C12 (as claimed): the request path never waits for a deployment: no step
\* between the receipt of a request and its response runs or awaits the
\* deploy script. should_deploy is such a step (the handler calls it
\* before it answers), in both classes (both allow-lists being set, and the
\* names services.py reads being bound).
C12_FilterNeverRunsScript ==
    (/\ Called
     /\ f_in.env.bound
     /\ allow_events.t = "str"
     /\ allow_branches.t = "str"
     /\ f_in.payload.t = "dict")
    => ~f_out.spawned

\* C17: for a release event with 'release' allow-listed, should_deploy of
\* main.py returns (True, _) if and only if the payload's action field
\* equals 'published'; for every other or missing action it returns
\* (False, reason naming that action).
FilterAction == DictGet(f_in.payload.d, "action", PyStr(<<>>))
C17_ReleaseDecision ==
    (/\ Called
     /\ f_in.impl = "main"
     /\ f_in.event_type = s_release
     /\ s_release \in AllowedNames(allow_events)
     /\ f_in.payload.t = "dict")
    => /\ f_out.kind = "return"
       /\ f_out.ok <=> FilterAction = PyStr(s_published)
       /\ ~f_out.ok =>
            /\ f_out.fmt = "Release action '{}' does not trigger deployment"
            /\ f_out.arg = FilterAction
\* a release with no action at all was rejected, the reason naming the
\* empty action
C17_Witness ==
    /\ Called
    /\ f_in.impl = "main"
    /\ f_in.event_type = s_release
    /\ f_in.payload.t = "dict"
    /\ f_in.payload.d.action = Absent
    /\ f_out.kind = "return"
    /\ ~f_out.ok
    /\ f_out.arg = PyStr(<<>>)

\* C16 (as claimed): verify_signature returns True exactly when the header
\* is 'sha256=' followed by the hex HMAC-SHA256 of the request body under
\* the configured secret, and returns a boolean, never raising, for every
\* body, header and configured secret (empty body and empty secret
\* included).
C16_VerifyIsTotalAndExact ==
    (/\ Called
     /\ f_in.impl = "verify"
     /\ hook_secret.t = "str")
    => /\ f_out.result \in {"true", "false"}
       /\ f_out.result = "true"
            <=> f_in.signature = s_sha256_eq \o HmacHex(hook_secret.s, f_in.body)

(* ----------------------- claims on execute_script ---------------------- *)
NE == Len(execs)
IsRecord(v) == v.t = "dict"
IsSet(field) == field.t = "set"
OutcomeFields == {"cmd", "stdout", "stderr", "returncode"}

\* C13 (as claimed): whatever the order and overlap of the execute_script
\* calls for one app, once all calls have finished the cmd, stdout, stderr
\* and returncode fields of status[app] all come from one single execution.
C13_RecordFromOneExecution ==
    (\A i \in 1..NE : execs[i].pc = "done")
    => \A app \in AppNames :
         IsRecord(status[app])
         => \A f, g \in OutcomeFields :
              (IsSet(status[app].d[f]) /\ IsSet(status[app].d[g]))
              => status[app].d[f].by = status[app].d[g].by

\* C14 (as claimed): when the composed command of an execute_script call
\* exits non-zero, that exit code is recorded as the record's return code
\* and the record's error field is left unset; an exit code of 0 is
\* recorded as 0, with empty stderr lines when the process wrote nothing
\* to stderr.
C14_ExitCodeIsRecorded ==
    [][\A i \in 1..NE :
         (execs[i].pc = "running" /\ execs'[i].pc = "done")
         => /\ IsRecord(status'[execs[i].app])
            /\ IsSet(status'[execs[i].app].d.returncode)
            /\ status'[execs[i].app].d.returncode.v = execs'[i].proc.rc
            /\ execs'[i].proc.rc # 0
                 => status'[execs[i].app].d.error = Absent
            /\ (execs'[i].proc.rc = 0 /\ execs'[i].proc.err = <<>>)
                 => /\ IsSet(status'[execs[i].app].d.stderr)
                    /\ status'[execs[i].app].d.stderr.v = <<>>]_vars

\* C15 (as claimed): when the working directory of an execute_script call
\* is missing, the call fails before spawning: no process is created, it
\* returns failure, and a descriptive error is recorded in the app's status
\* record as its error (for an app not named 'error').
C15_MissingPathRecordsError ==
    [][(/\ Len(execs') = NE + 1
        /\ ~execs'[NE + 1].path_exists
        /\ execs'[NE + 1].app # "error")
       => /\ execs'[NE + 1].pc = "done"
          /\ execs'[NE + 1].ret = "false"
          /\ IsRecord(status'[execs'[NE + 1].app])
          /\ IsSet(status'[execs'[NE + 1].app].d.error)]_vars

\* C18 (as claimed): once execute_script(app, ...) has started, status[app]
\* is a record holding no field of an earlier execution, and the records of
\* every other app are unchanged, whatever the app names are.
C18_OnlyOwnRecordReplaced ==
    [][Len(execs') = NE + 1
       => /\ IsRecord(status'[execs'[NE + 1].app])
          /\ \A f \in RecordFields :
               IsSet(status'[execs'[NE + 1].app].d[f])
               => status'[execs'[NE + 1].app].d[f].by = NE + 1
          /\ \A k \in AppNames \ {execs'[NE + 1].app} :
               IsRecord(status[k]) => status'[k] = status[k]]_vars

====
